---- MODULE Spec2Model ----
(***************************************************************************)
(* Model of mouse-keys (src/py.py): a low-level keyboard hook that tracks  *)
(* the pressed keys and decides consume/forward, a worker that turns the   *)
(* pressed-key set into synthetic mouse input on a fixed tick, and the     *)
(* coordinator that installs the hook, starts the worker and shuts both    *)
(* down.                                                                   *)
(*                                                                         *)
(* Time is counted in hundredths of a second (TICK = 0.01 s = 1).          *)
(* SendInput and waveOutSetVolume report failure by their return value,    *)
(* which the wrappers ignore, so an emitter call is an emission.  The only *)
(* statements of the hook's try block that can raise are the console       *)
(* prints of the volume path (lines 480, 483), and CallNextHookEx has a    *)
(* handler of its own (lines 504-507).                                     *)
(***************************************************************************)
EXTENDS Integers, FiniteSets, Sequences

\* ------------------------------------------------------------ constants
WM_KEYDOWN == 256
WM_KEYUP == 257
WM_SYSKEYDOWN == 260
WM_SYSKEYUP == 261
WHEEL_DELTA == 120

VK_W == 87
VK_A == 65
VK_S == 83
VK_D == 68
VK_LSHIFT == 160
VK_RSHIFT == 161
VK_LCONTROL == 162
VK_RCONTROL == 163
VK_CONTROL == 17
VK_LMENU == 164
VK_RMENU == 165
VK_MENU == 18
VK_TAB == 9
VK_1 == 49
VK_2 == 50
VK_NUMPAD1 == 97
VK_NUMPAD2 == 98
VK_3 == 51
VK_4 == 52
VK_NUMPAD3 == 99
VK_NUMPAD4 == 100
VK_OEM_MINUS == 189
VK_SUBTRACT == 109
VK_OEM_PLUS == 187
VK_ADD == 107
VK_CAPITAL == 20
VK_OEM_3 == 192
VK_RETURN == 13
VK_F == 70
VK_LEFT == 37
VK_UP == 38
VK_RIGHT == 39
VK_DOWN == 40
VK_LWIN == 91
VK_RWIN == 92
VK_OEM_4 == 219
VK_OEM_6 == 221

SCRIPT_KEYS ==
    { VK_W, VK_A, VK_S, VK_D,
      VK_LSHIFT, VK_RSHIFT,
      VK_1, VK_2, VK_NUMPAD1, VK_NUMPAD2,
      VK_3, VK_4, VK_NUMPAD3, VK_NUMPAD4,
      VK_OEM_MINUS, VK_SUBTRACT,
      VK_OEM_PLUS, VK_ADD,
      VK_CAPITAL,
      VK_TAB,
      VK_OEM_3,
      VK_UP, VK_DOWN, VK_LEFT, VK_RIGHT,
      VK_F }

\* synth_shift_vk = None
None == 0

\* movement_worker's constants, in ticks and pixels
STEP0 == 4
TICK == 1
MIN_STEP == 1
MAX_STEP == 50
SCROLL_AMOUNT == WHEEL_DELTA
SCROLL_INTERVAL == 10

\* ------------------------------------------------------------ bounds
\* keys the keyboard reports as down at the same time
MaxHeld == 2
\* how far the user moves STEP away from its initial value
MaxStepDelta == 1
\* the longest one worker iteration takes, in ticks
MaxElapsed == 2

\* ------------------------------------------------------------ state
VARIABLES
    pressed_keys,           \* global pressed_keys (line 204)
    active,                 \* global active (line 208)
    synth_shift_active,     \* global (line 211)
    synth_shift_vk,         \* global (line 212), None = 0
    dragging_active,        \* global (line 215)
    hook_handle,            \* TRUE while the hook is registered
    stop_evt,               \* threading.Event (line 850)
    quit_posted,            \* a WM_QUIT is in the main thread's queue
    mpc,                    \* position of main()
    wpc,                    \* position of movement_worker()
    snapshot,               \* worker local (line 663)
    STEP,
    prev_shift,
    prev_scroll_pressed_v,
    prev_scroll_pressed_h,
    next_scroll_time_v,     \* ticks left until next_scroll_time_v, 0 = due
    next_scroll_time_h,
    prev_plus,
    prev_minus,
    prev_caps,
    prev_f,
    prev_backtick,
    rel_vk,                 \* the worker's argument for send_vk_up (line 398), None = 0
    emits,                  \* what the last step handed to the emitter, in order
    last,                   \* the last step taken
    hk,                     \* the last hook call logged: its arguments and its result
    phys,                   \* keys whose latest physical transition was a press
    held_over,              \* keys an active tick has seen that stayed down since
    lbutton,                \* the left mouse button as the emissions leave it
    since,                  \* per axis, ticks from the last scroll of the present hold
                            \* to the last timed iteration's clock reading; e: the
                            \* ticks that iteration came after the one before
    fwd_down,               \* logged keys that are down, their press forwarded
    bare                    \* shared data the last step used outside pressed_lock

globals == <<pressed_keys, active, synth_shift_active, synth_shift_vk, dragging_active>>
life == <<hook_handle, stop_evt, quit_posted, mpc, wpc>>
locals == <<snapshot, STEP, prev_shift, prev_scroll_pressed_v, prev_scroll_pressed_h,
            next_scroll_time_v, next_scroll_time_h, prev_plus, prev_minus,
            prev_caps, prev_f, prev_backtick, rel_vk>>
obs == <<emits, last, hk, phys, held_over, lbutton, since, fwd_down, bare>>
vars == <<globals, life, locals, obs>>

\* ------------------------------------------------------------ emitter
\* one SendInput / volume call: a tag and up to four numbers
Ev(t, a) == <<t, a, 0, 0, 0>>
send_left_down == <<Ev("LEFTDOWN", 0)>>
send_left_up == <<Ev("LEFTUP", 0)>>
send_left_click == <<Ev("LEFTDOWN", 0), Ev("LEFTUP", 0)>>
send_right_click == <<Ev("RIGHTDOWN", 0), Ev("RIGHTUP", 0)>>
send_middle_click == <<Ev("MIDDLEDOWN", 0), Ev("MIDDLEUP", 0)>>
send_scroll(delta) == <<Ev("WHEEL", delta)>>
send_hscroll(delta) == <<Ev("HWHEEL", delta)>>
send_vk_down(vk) == <<Ev("KEYDOWN", vk)>>
send_vk_up(vk) == <<Ev("KEYUP", vk)>>
send_key_vk(vk) == send_vk_down(vk) \o send_vk_up(vk)
\* one toggle where two were meant
SingleCapsToggle == send_key_vk(VK_CAPITAL)
send_caps_double_toggle == send_key_vk(VK_CAPITAL) \o send_key_vk(VK_CAPITAL)
set_master_volume_percent(p) == <<Ev("VOLUME", p)>>

\* the left button after the emissions `es`, `b` before them
LeftAfter(b, es) ==
    LET idx == { i \in DOMAIN es : es[i][1] \in {"LEFTDOWN", "LEFTUP"} }
    IN  IF idx = {} THEN b
        ELSE LET m == CHOOSE i \in idx : \A j \in idx : j <= i
             IN  es[m][1] = "LEFTDOWN"

Tags(es) == { es[i][1] : i \in DOMAIN es }
Count(es, t) == Cardinality({ i \in DOMAIN es : es[i][1] = t })

\* ------------------------------------------------------------ hook
CtrlHeld(keys) == VK_LCONTROL \in keys \/ VK_RCONTROL \in keys \/ VK_CONTROL \in keys
AltHeld(keys) == VK_LMENU \in keys \/ VK_RMENU \in keys \/ VK_MENU \in keys
ShiftHeld(keys) == VK_LSHIFT \in keys \/ VK_RSHIFT \in keys
WinHeld(keys) == VK_LWIN \in keys \/ VK_RWIN \in keys

IsKeyDown(wParam) == wParam = WM_KEYDOWN \/ wParam = WM_SYSKEYDOWN
IsKeyUp(wParam) == wParam = WM_KEYUP \/ wParam = WM_SYSKEYUP

\* a hook without the reserved key
NoReservedKey(vk) == FALSE

_always_block_key(vk) == vk = VK_OEM_3

\* tracking that does not look at the injected flag
TrackInjectedToo(keys, wParam, vk, injected) ==
    IF IsKeyDown(wParam) THEN keys \cup {vk}
    ELSE IF IsKeyUp(wParam) THEN keys \ {vk}
    ELSE keys

\* lines 436-442: the pressed-key set after the event
TrackKey(keys, wParam, vk, injected) ==
    IF injected THEN keys
    ELSE IF IsKeyDown(wParam) THEN keys \cup {vk}
    ELSE IF IsKeyUp(wParam) THEN keys \ {vk}
    ELSE keys

\* a decision that forgets the Windows keys
BlockDespiteWin(vk, injected, keys, act) ==
    IF injected THEN FALSE
    ELSE IF vk = VK_OEM_3 THEN TRUE
    ELSE IF vk = VK_TAB /\ AltHeld(keys) THEN FALSE
    ELSE vk \in SCRIPT_KEYS /\ act /\ ~CtrlHeld(keys)

\* lines 487-498: TRUE when the callback returns int(1)
BlockKey(vk, injected, keys, act) ==
    IF injected THEN FALSE
    ELSE IF _always_block_key(vk) THEN TRUE
    ELSE IF vk = VK_TAB /\ AltHeld(keys) THEN FALSE
    ELSE vk \in SCRIPT_KEYS /\ act /\ ~CtrlHeld(keys) /\ ~WinHeld(keys)

\* a callback without the outer except clause
FaultEscapes(raised, block, nextFails) ==
    IF raised THEN "raise"
    ELSE IF block THEN "1"
    ELSE IF nextFails THEN "0"
    ELSE "CallNextHookEx"

\* lines 499-507: what the callback returns
HookReturn(raised, block, nextFails) ==
    IF ~raised /\ block THEN "1"
    ELSE IF nextFails THEN "0"
    ELSE "CallNextHookEx"

NoCall == [nCode |-> 0, vk |-> 0, injected |-> FALSE,
           raised |-> FALSE, ret |-> "-"]

\* the keys of the two scroll axes (lines 748-749, 760-761)
VerticalKeys == { VK_1, VK_NUMPAD1, VK_2, VK_NUMPAD2 }
HorizontalKeys == { VK_3, VK_NUMPAD3, VK_4, VK_NUMPAD4 }

\* no scroll has been emitted in the present hold of either axis
NoScrollYet == [v |-> SCROLL_INTERVAL, h |-> SCROLL_INTERVAL, e |-> TICK]

\* a release of a scroll key ends the hold of its axis
SinceReleased(s, before, after) ==
    [v |-> IF (before \cap VerticalKeys) \subseteq after THEN s.v ELSE SCROLL_INTERVAL,
     h |-> IF (before \cap HorizontalKeys) \subseteq after THEN s.h ELSE SCROLL_INTERVAL,
     e |-> s.e]

\* `elapsed` ticks later, e keeping that duration; SCROLL_INTERVAL stands for
\* that much or more
SinceLater(s, elapsed) ==
    [v |-> IF s.v + elapsed < SCROLL_INTERVAL THEN s.v + elapsed ELSE SCROLL_INTERVAL,
     h |-> IF s.h + elapsed < SCROLL_INTERVAL THEN s.h + elapsed ELSE SCROLL_INTERVAL,
     e |-> elapsed]

\* after the emissions `es`
SinceEmitted(s, es) ==
    [v |-> IF \E i \in DOMAIN es : es[i][1] = "WHEEL" THEN 0 ELSE s.v,
     h |-> IF \E i \in DOMAIN es : es[i][1] = "HWHEEL" THEN 0 ELSE s.h,
     e |-> s.e]

\* the keys that are down and whose press the application was given, after
\* this event: a press is given to it unless the hook returns 1
SeenDown(seen, before, wParam, vk, injected, ret) ==
    IF injected THEN seen
    ELSE IF wParam \in {WM_KEYDOWN, WM_SYSKEYDOWN} /\ vk \notin before
         THEN (IF ret = "1" THEN seen \ {vk} ELSE seen \cup {vk})
    ELSE IF wParam \in {WM_KEYUP, WM_SYSKEYUP} THEN seen \ {vk}
    ELSE seen

\* the physical keyboard: the keys whose latest physical transition was a press
Physical(keys, nCode, wParam, vk, injected) ==
    IF nCode < 0 \/ injected THEN keys
    ELSE IF IsKeyDown(wParam) THEN keys \cup {vk}
    ELSE IF IsKeyUp(wParam) THEN keys \ {vk}
    ELSE keys

\* a release by either Shift key
AnyShiftReleases(shiftUp, vk, synth_active, synth_vk) == shiftUp /\ synth_active

\* line 466: the released Shift is the one the synthetic Shift stands for
SynthRelease(shiftUp, vk, synth_active, synth_vk) ==
    shiftUp /\ synth_active /\ synth_vk = vk

\* the shared data the callback reads or writes outside `with pressed_lock`
\* on its way through lines 451-498: active (lines 455, 497), the synthetic
\* Shift's two globals (lines 455-472) and pressed_keys (line 456)
HookBare(wParam, vk, injected, keys, raised, synthOn, synthOff) ==
    LET enterDown == ~injected /\ IsKeyDown(wParam) /\ vk = VK_RETURN
        shiftUp == ~injected /\ ~enterDown /\ IsKeyUp(wParam)
                   /\ (vk = VK_LSHIFT \/ vk = VK_RSHIFT)
        decides == /\ ~injected /\ ~raised /\ vk # VK_OEM_3
                   /\ ~(vk = VK_TAB /\ AltHeld(keys))
                   /\ vk \in SCRIPT_KEYS
    IN  (IF enterDown \/ decides THEN {"active"} ELSE {})
        \cup (IF (enterDown /\ active /\ ~CtrlHeld(keys) /\ ShiftHeld(keys)) \/ shiftUp
              THEN {"synth_shift_active"} ELSE {})
        \cup (IF synthOn THEN {"pressed_keys", "synth_shift_vk"} ELSE {})
        \cup (IF shiftUp /\ synth_shift_active THEN {"synth_shift_vk"} ELSE {})

\* the same for _maybe_release_synth_shift (lines 394-402)
ReleaseBare ==
    IF synth_shift_active THEN {"synth_shift_active", "synth_shift_vk"}
    ELSE {"synth_shift_active"}

\* lines 425-507.  printFails: the console print of the volume path raises;
\* nextFails: CallNextHookEx raises; log: the call is recorded in hk
_low_level_keyboard_proc(nCode, wParam, vk, injected, printFails, nextFails, log) ==
    LET proc == nCode >= 0
        keys == IF proc THEN TrackKey(pressed_keys, wParam, vk, injected) ELSE pressed_keys
        ctrl_held == CtrlHeld(keys)
        shift_held == ShiftHeld(keys)
        enterDown == proc /\ ~injected /\ IsKeyDown(wParam) /\ vk = VK_RETURN
        synthOn == enterDown /\ active /\ ~ctrl_held /\ shift_held /\ ~synth_shift_active
        used_vk == IF VK_LSHIFT \in keys THEN VK_LSHIFT
                   ELSE IF VK_RSHIFT \in keys THEN VK_RSHIFT ELSE VK_LSHIFT
        shiftUp == proc /\ ~injected /\ ~enterDown /\ IsKeyUp(wParam)
                   /\ (vk = VK_LSHIFT \/ vk = VK_RSHIFT)
        synthOff == SynthRelease(shiftUp, vk, synth_shift_active, synth_shift_vk)
        volume == proc /\ ~injected /\ IsKeyDown(wParam) /\ (vk = VK_OEM_4 \/ vk = VK_OEM_6)
        raised == volume /\ printFails
        block == proc /\ BlockKey(vk, injected, keys, active)
        emitted == (IF synthOn THEN send_vk_down(used_vk) ELSE <<>>)
                   \o (IF synthOff THEN send_vk_up(synth_shift_vk) ELSE <<>>)
                   \o (IF volume
                       THEN set_master_volume_percent(IF vk = VK_OEM_4 THEN 24 ELSE 42)
                       ELSE <<>>)
    IN  /\ mpc = "pump"
        /\ hook_handle
        /\ printFails => volume
        /\ pressed_keys' = keys
        /\ synth_shift_active' = IF synthOn THEN TRUE ELSE IF synthOff THEN FALSE
                                 ELSE synth_shift_active
        /\ synth_shift_vk' = IF synthOn THEN used_vk ELSE IF synthOff THEN None
                             ELSE synth_shift_vk
        /\ emits' = emitted
        /\ hk' = IF log
                 THEN [nCode |-> nCode, vk |-> vk, injected |-> injected,
                       raised |-> raised, ret |-> HookReturn(raised, block, nextFails)]
                 ELSE NoCall
        /\ bare' = IF log /\ proc
                   THEN HookBare(wParam, vk, injected, keys, raised, synthOn, synthOff)
                   ELSE {}
        /\ phys' = Physical(phys, nCode, wParam, vk, injected)
        /\ held_over' = held_over \cap Physical(phys, nCode, wParam, vk, injected)
        /\ since' = SinceReleased(since, phys, Physical(phys, nCode, wParam, vk, injected))
        /\ last' = "hook"
        /\ UNCHANGED <<active, dragging_active, lbutton, life, locals>>

\* ------------------------------------------------------------ worker
\* the virtual desktop, GetSystemMetrics(76..79) (lines 626-631)
left == 0 - 2
top == 0
width == 6
height == 3
right == left + width - 1
bottom == top + height - 1
\* where get_cursor_pos may find the cursor
CursorXs == {left, left + 1, right}
CursorYs == {top, bottom}

Max(a, b) == IF a >= b THEN a ELSE b
\* max written where min was meant
MaxForMin(a, b) == IF a >= b THEN a ELSE b
Min(a, b) == IF a <= b THEN a ELSE b

\* int(round(s * 0.25)): Python rounds a half to the even neighbour
RoundQuarter(s) ==
    LET q == s \div 4
        r == s % 4
    IN  IF r < 2 THEN q
        ELSE IF r > 2 THEN q + 1
        ELSE IF q % 2 = 0 THEN q ELSE q + 1

\* a slowed step without the floor of one pixel
StepWithoutFloor(step, shift_now) ==
    IF shift_now THEN RoundQuarter(step) ELSE step

\* lines 736-737
StepEffective(step, shift_now) ==
    Max(1, IF shift_now THEN RoundQuarter(step) ELSE step)

\* arrows that are not taken for movement keys
EffectiveWithoutArrows(snap) == snap

\* lines 666-670
Effective(snap) ==
    snap \cup (IF VK_UP \in snap THEN {VK_W} ELSE {})
         \cup (IF VK_LEFT \in snap THEN {VK_A} ELSE {})
         \cup (IF VK_DOWN \in snap THEN {VK_S} ELSE {})
         \cup (IF VK_RIGHT \in snap THEN {VK_D} ELSE {})

B2I(b) == IF b THEN 1 ELSE 0

\* set_cursor_pos (lines 231-264): the clamped target, with the requested delta
set_cursor_pos(x, y, dx, dy) ==
    LET w == IF width <= 1 THEN Max(1, width) ELSE width
        h == IF height <= 1 THEN Max(1, height) ELSE height
        tx == Max(left, Min(left + w - 1, x))
        ty == Max(top, Min(top + h - 1, y))
    IN  <<(<<"MOVE", tx, ty, dx, dy>>)>>

\* lines 750, 763
ScrollDir(plus, minus) == IF plus /\ ~minus THEN 1 ELSE IF minus /\ ~plus THEN 0 - 1 ELSE 0

\* a drag that only Shift can start
DragNeedsShift(tab_now, shift_now, wasd, alt_held) ==
    (tab_now /\ shift_now) /\ ~alt_held

\* a drag that Tab starts by itself
DragOnTabAlone(tab_now, shift_now, wasd, alt_held) ==
    tab_now /\ ~alt_held

\* a drag that Alt does not prevent
DragDespiteAlt(tab_now, shift_now, wasd, alt_held) ==
    tab_now /\ (shift_now \/ wasd)

\* line 778
StartDragCondition(tab_now, shift_now, wasd, alt_held) ==
    (tab_now /\ (shift_now \/ wasd)) /\ ~alt_held

\* a click that does not look at the drag
ClickWhileDragging(shift_now, prev, wasd, start_drag, dragging) ==
    shift_now /\ ~prev /\ ~wasd /\ ~start_drag

\* a click that does not look at the movement keys
ClickWhileMoving(shift_now, prev, wasd, start_drag, dragging) ==
    shift_now /\ ~prev /\ ~start_drag /\ ~dragging

\* lines 781-783
ShiftClick(shift_now, prev, wasd, start_drag, dragging) ==
    shift_now /\ ~prev /\ ~wasd /\ ~start_drag /\ ~dragging

\* a gate that looks at Ctrl only
PassthroughCtrlOnly(snap) == CtrlHeld(snap)

\* line 704
Passthrough(snap) == CtrlHeld(snap) \/ WinHeld(snap)

\* a speed adjustment that does not stop at the bounds
SpeedUnbounded(step, act, plusEdge, minusEdge) ==
    step + (IF act /\ plusEdge THEN 1 ELSE 0) - (IF act /\ minusEdge THEN 1 ELSE 0)

\* lines 694-700
SpeedAdjust(step, act, plusEdge, minusEdge) ==
    LET s1 == IF act /\ plusEdge THEN Min(MAX_STEP, step + 1) ELSE step
    IN  IF act /\ minusEdge THEN Max(MIN_STEP, s1 - 1) ELSE s1

\* lines 665-837: one iteration's body on the snapshot `snap`, with tv / th ticks
\* left on the two scroll timers at `now` and the cursor found at (cx, cy)
TickBody(snap, tv, th, cx, cy) ==
    LET effective == Effective(snap)
        alt_held == AltHeld(snap)
        \* toggle (lines 678-689)
        backtick_now == VK_OEM_3 \in snap
        toggled == backtick_now /\ ~prev_backtick
        active1 == IF toggled THEN ~active ELSE active
        relToggle == toggled /\ ~active1 /\ dragging_active
        drag1 == IF relToggle THEN FALSE ELSE dragging_active
        \* speed (lines 692-701)
        plus_now == VK_OEM_PLUS \in snap \/ VK_ADD \in snap
        minus_now == VK_OEM_MINUS \in snap \/ VK_SUBTRACT \in snap
        step1 == SpeedAdjust(STEP, active1, plus_now /\ ~prev_plus, minus_now /\ ~prev_minus)
        \* Alt (lines 724-730)
        relAlt == alt_held /\ drag1
        drag2 == IF relAlt THEN FALSE ELSE drag1
        \* movement (lines 734-745)
        shift_now == ShiftHeld(snap)
        step_effective == StepEffective(step1, shift_now)
        dx == step_effective * (B2I(VK_D \in effective) - B2I(VK_A \in effective))
        dy == step_effective * (B2I(VK_S \in effective) - B2I(VK_W \in effective))
        moving == dx # 0 \/ dy # 0
        nx == Max(left, Min(right, cx + dx))
        ny == Max(top, Min(bottom, cy + dy))
        \* scrolling (lines 748-770)
        scroll_dir_v == ScrollDir(VK_1 \in snap \/ VK_NUMPAD1 \in snap,
                                  VK_2 \in snap \/ VK_NUMPAD2 \in snap)
        scroll_pressed_v == scroll_dir_v # 0
        fireV == scroll_pressed_v /\ (~prev_scroll_pressed_v \/ tv = 0)
        scroll_dir_h == ScrollDir(VK_4 \in snap \/ VK_NUMPAD4 \in snap,
                                  VK_3 \in snap \/ VK_NUMPAD3 \in snap)
        scroll_pressed_h == scroll_dir_h # 0
        fireH == scroll_pressed_h /\ (~prev_scroll_pressed_h \/ th = 0)
        \* drag and Shift click (lines 776-801)
        tab_now == VK_TAB \in snap
        wasd_or_arrows_held == \E k \in {VK_W, VK_A, VK_S, VK_D} : k \in effective
        start_drag_condition ==
            StartDragCondition(tab_now, shift_now, wasd_or_arrows_held, alt_held)
        click == ShiftClick(shift_now, prev_shift, wasd_or_arrows_held,
                            start_drag_condition, drag2)
        startDrag == ~drag2 /\ start_drag_condition
        stopDrag == ~startDrag /\ drag2 /\ (~tab_now \/ alt_held)
        \* CapsLock and F (lines 804-820)
        caps_now == VK_CAPITAL \in snap
        f_now == VK_F \in snap
        head == (IF relToggle THEN send_left_up ELSE <<>>)
        onMode == ~Passthrough(snap) /\ active1
    IN  /\ active' = active1
        /\ held_over' = IF onMode THEN snap \cap phys ELSE held_over
        /\ prev_backtick' = backtick_now
        /\ STEP' = step1
        /\ prev_plus' = plus_now
        /\ prev_minus' = minus_now
        /\ IF Passthrough(snap)
           THEN \* lines 704-721
                /\ prev_shift' = FALSE
                /\ prev_scroll_pressed_v' = FALSE
                /\ prev_scroll_pressed_h' = FALSE
                /\ next_scroll_time_v' = 0
                /\ next_scroll_time_h' = 0
                /\ prev_caps' = FALSE
                /\ prev_f' = FALSE
                /\ dragging_active' = FALSE
                /\ emits' = head \o (IF drag1 THEN send_left_up ELSE <<>>)
           ELSE IF active1
           THEN \* lines 732-820
                /\ prev_shift' = shift_now
                /\ prev_scroll_pressed_v' = scroll_pressed_v
                /\ prev_scroll_pressed_h' = scroll_pressed_h
                /\ next_scroll_time_v' = IF ~scroll_pressed_v THEN 0
                                         ELSE IF fireV THEN SCROLL_INTERVAL ELSE tv
                /\ next_scroll_time_h' = IF ~scroll_pressed_h THEN 0
                                         ELSE IF fireH THEN SCROLL_INTERVAL ELSE th
                /\ prev_caps' = caps_now
                /\ prev_f' = f_now
                /\ dragging_active' = IF startDrag THEN TRUE
                                      ELSE IF stopDrag THEN FALSE ELSE drag2
                /\ emits' = head
                      \o (IF relAlt THEN send_left_up ELSE <<>>)
                      \o (IF moving THEN set_cursor_pos(nx, ny, dx, dy) ELSE <<>>)
                      \o (IF fireV THEN send_scroll(scroll_dir_v * SCROLL_AMOUNT) ELSE <<>>)
                      \o (IF fireH THEN send_hscroll(scroll_dir_h * SCROLL_AMOUNT) ELSE <<>>)
                      \o (IF click THEN send_left_click ELSE <<>>)
                      \o (IF startDrag THEN send_left_down ELSE <<>>)
                      \o (IF stopDrag THEN send_left_up ELSE <<>>)
                      \o (IF caps_now /\ ~prev_caps
                          THEN send_caps_double_toggle \o send_right_click ELSE <<>>)
                      \o (IF f_now /\ ~prev_f THEN send_middle_click ELSE <<>>)
           ELSE \* lines 821-835
                /\ prev_shift' = FALSE
                /\ prev_scroll_pressed_v' = FALSE
                /\ prev_scroll_pressed_h' = FALSE
                /\ next_scroll_time_v' = 0
                /\ next_scroll_time_h' = 0
                /\ prev_caps' = FALSE
                /\ prev_f' = FALSE
                /\ dragging_active' = FALSE
                /\ emits' = head \o (IF relAlt THEN send_left_up ELSE <<>>)
                                 \o (IF drag2 THEN send_left_up ELSE <<>>)
        /\ lbutton' = LeftAfter(lbutton, emits')
        /\ last' = "tick"
        /\ hk' = NoCall
        /\ bare' = {"active", "dragging_active"}
        /\ UNCHANGED <<pressed_keys, synth_shift_active, synth_shift_vk, phys, fwd_down,
                       rel_vk>>

\* the scroll timers at the next reading of the clock, `elapsed` ticks later
Later(t, elapsed) == Max(0, t - elapsed)

\* get_cursor_pos is called only when a movement key or arrow is down (line 741)
Cursors(snap) ==
    IF Effective(snap) \cap {VK_W, VK_A, VK_S, VK_D} # {}
    THEN CursorXs \X CursorYs ELSE {<<left, top>>}

\* how long the iteration before this one took; it shows only in a running timer
Elapsed == IF next_scroll_time_v + next_scroll_time_h > 0 THEN TICK..MaxElapsed ELSE {TICK}

\* one whole iteration of the loop (lines 659-837), the snapshot and the body
\* taken together
WorkerIteration ==
    /\ wpc = "loop"
    /\ mpc # "terminated"
    /\ ~stop_evt
    /\ \E elapsed \in Elapsed, c \in Cursors(pressed_keys) :
          TickBody(pressed_keys, Later(next_scroll_time_v, elapsed),
                   Later(next_scroll_time_h, elapsed), c[1], c[2])
    /\ snapshot' = pressed_keys
    /\ UNCHANGED <<life, since>>

\* the same iteration with the time since the last scroll of each axis measured
TimedIteration ==
    /\ wpc = "loop"
    /\ mpc # "terminated"
    /\ ~stop_evt
    /\ \E elapsed \in TICK..MaxElapsed, c \in Cursors(pressed_keys) :
          /\ TickBody(pressed_keys, Later(next_scroll_time_v, elapsed),
                      Later(next_scroll_time_h, elapsed), c[1], c[2])
          /\ since' = SinceEmitted(SinceLater(since, elapsed), emits')
    /\ snapshot' = pressed_keys
    /\ UNCHANGED life

\* an iteration that starts whatever the stop flag says
SnapshotIgnoresStop ==
    /\ wpc = "loop"
    /\ mpc # "terminated"
    /\ \E elapsed \in Elapsed :
          /\ next_scroll_time_v' = Later(next_scroll_time_v, elapsed)
          /\ next_scroll_time_h' = Later(next_scroll_time_h, elapsed)
    /\ snapshot' = pressed_keys
    /\ wpc' = "body"
    /\ emits' = <<>>
    /\ last' = "snapshot"
    /\ hk' = NoCall
    /\ bare' = {}
    /\ UNCHANGED <<globals, hook_handle, stop_evt, quit_posted, mpc, STEP, prev_shift,
                   prev_scroll_pressed_v, prev_scroll_pressed_h, prev_plus, prev_minus,
                   prev_caps, prev_f, prev_backtick, rel_vk, phys, held_over, since, fwd_down,
                   lbutton>>

\* the same iteration in two steps: the clock and the snapshot (lines 659-663) ...
WorkerSnapshot ==
    /\ wpc = "loop"
    /\ mpc # "terminated"
    /\ ~stop_evt
    /\ \E elapsed \in Elapsed :
          /\ next_scroll_time_v' = Later(next_scroll_time_v, elapsed)
          /\ next_scroll_time_h' = Later(next_scroll_time_h, elapsed)
    /\ snapshot' = pressed_keys
    /\ wpc' = "body"
    /\ emits' = <<>>
    /\ last' = "snapshot"
    /\ hk' = NoCall
    /\ bare' = {}
    /\ UNCHANGED <<globals, hook_handle, stop_evt, quit_posted, mpc, STEP, prev_shift,
                   prev_scroll_pressed_v, prev_scroll_pressed_h, prev_plus, prev_minus,
                   prev_caps, prev_f, prev_backtick, rel_vk, phys, held_over, since, fwd_down,
                   lbutton>>

\* ... and the body on that snapshot (lines 665-837)
WorkerBody ==
    /\ wpc = "body"
    /\ mpc # "terminated"
    /\ \E c \in Cursors(snapshot) :
          TickBody(snapshot, next_scroll_time_v, next_scroll_time_h, c[1], c[2])
    /\ wpc' = "loop"
    /\ UNCHANGED <<snapshot, hook_handle, stop_evt, quit_posted, mpc, since>>

\* line 659: the loop sees the stop flag
WorkerStop ==
    /\ wpc = "loop"
    /\ mpc # "terminated"
    /\ stop_evt
    /\ wpc' = "finally"
    /\ emits' = <<>>
    /\ last' = "stop"
    /\ hk' = NoCall
    /\ bare' = {}
    /\ UNCHANGED <<globals, hook_handle, stop_evt, quit_posted, mpc, locals, phys,
                   held_over, since, fwd_down, lbutton>>

\* lines 840-845
WorkerFinallyDrag ==
    /\ wpc = "finally"
    /\ mpc # "terminated"
    /\ emits' = IF dragging_active THEN send_left_up ELSE <<>>
    /\ dragging_active' = FALSE
    /\ lbutton' = LeftAfter(lbutton, emits')
    /\ wpc' = "finally_shift"
    /\ last' = "finally"
    /\ hk' = NoCall
    /\ bare' = {"dragging_active"}
    /\ UNCHANGED <<pressed_keys, active, synth_shift_active, synth_shift_vk, hook_handle,
                   stop_evt, quit_posted, mpc, locals, phys, held_over, since, fwd_down>>

\* _maybe_release_synth_shift (lines 394-402): what it emits
_maybe_release_synth_shift ==
    IF synth_shift_active /\ synth_shift_vk # None THEN send_vk_up(synth_shift_vk) ELSE <<>>

\* line 847
WorkerFinallyShift ==
    /\ wpc = "finally_shift"
    /\ mpc # "terminated"
    /\ emits' = _maybe_release_synth_shift
    /\ synth_shift_active' = IF emits' # <<>> THEN FALSE ELSE synth_shift_active
    /\ synth_shift_vk' = IF emits' # <<>> THEN None ELSE synth_shift_vk
    /\ wpc' = "done"
    /\ last' = "finally"
    /\ hk' = NoCall
    /\ bare' = ReleaseBare
    /\ UNCHANGED <<pressed_keys, active, dragging_active, hook_handle, stop_evt,
                   quit_posted, mpc, locals, phys, held_over, since, fwd_down, lbutton>>

\* the same call as the worker thread runs it beside the main thread: the test
\* of line 396 ...
ReleaseTest ==
    /\ wpc = "finally_shift"
    /\ mpc # "terminated"
    /\ wpc' = IF synth_shift_active /\ synth_shift_vk # None THEN "release_arg" ELSE "done"
    /\ emits' = <<>>
    /\ last' = "finally"
    /\ hk' = NoCall
    /\ bare' = ReleaseBare
    /\ UNCHANGED <<globals, hook_handle, stop_evt, quit_posted, mpc, locals, phys,
                   held_over, since, fwd_down, lbutton>>

\* ... the reading of synth_shift_vk for the call of line 398 ...
ReleaseArg ==
    /\ wpc = "release_arg"
    /\ mpc # "terminated"
    /\ rel_vk' = synth_shift_vk
    /\ wpc' = "release_send"
    /\ emits' = <<>>
    /\ last' = "finally"
    /\ hk' = NoCall
    /\ bare' = {"synth_shift_vk"}
    /\ UNCHANGED <<globals, hook_handle, stop_evt, quit_posted, mpc, snapshot, STEP,
                   prev_shift, prev_scroll_pressed_v, prev_scroll_pressed_h,
                   next_scroll_time_v, next_scroll_time_h, prev_plus, prev_minus,
                   prev_caps, prev_f, prev_backtick, phys, held_over, since, fwd_down,
                   lbutton>>

\* ... and send_vk_up, which raises on None and is caught (lines 397-400), with
\* the two assignments of lines 401-402
ReleaseSend ==
    /\ wpc = "release_send"
    /\ mpc # "terminated"
    /\ emits' = IF rel_vk = None THEN <<>> ELSE send_vk_up(rel_vk)
    /\ synth_shift_active' = FALSE
    /\ synth_shift_vk' = None
    /\ rel_vk' = None
    /\ wpc' = "done"
    /\ last' = "finally"
    /\ hk' = NoCall
    /\ bare' = {"synth_shift_active", "synth_shift_vk"}
    /\ UNCHANGED <<pressed_keys, active, dragging_active, hook_handle, stop_evt,
                   quit_posted, mpc, snapshot, STEP, prev_shift, prev_scroll_pressed_v,
                   prev_scroll_pressed_h, next_scroll_time_v, next_scroll_time_h,
                   prev_plus, prev_minus, prev_caps, prev_f, prev_backtick, phys,
                   held_over, since, fwd_down, lbutton>>

\* ------------------------------------------------------------ coordinator
\* install_keyboard_hook (lines 509-581) returns a handle; main goes on (lines 865-867)
InstallHook ==
    /\ mpc = "install"
    /\ hook_handle' = TRUE
    /\ mpc' = "start_worker"
    /\ emits' = <<>>
    /\ last' = "install"
    /\ hk' = NoCall
    /\ bare' = {}
    /\ UNCHANGED <<globals, stop_evt, quit_posted, wpc, locals, phys, held_over, since,
                   fwd_down, lbutton>>

\* install_keyboard_hook raises OSError; main returns (lines 868-871)
InstallFails ==
    /\ mpc = "install"
    /\ mpc' = "terminated"
    /\ emits' = <<>>
    /\ last' = "install_failed"
    /\ hk' = NoCall
    /\ bare' = {}
    /\ UNCHANGED <<globals, hook_handle, stop_evt, quit_posted, wpc, locals, phys,
                   held_over, since, fwd_down, lbutton>>

\* lines 874-875; the worker reaches its loop (lines 613-658)
StartWorker ==
    /\ mpc = "start_worker"
    /\ wpc = "idle"
    /\ wpc' = "loop"
    /\ mpc' = "pump"
    /\ emits' = <<>>
    /\ last' = "start_worker"
    /\ hk' = NoCall
    /\ bare' = {}
    /\ UNCHANGED <<globals, hook_handle, stop_evt, quit_posted, locals, phys, held_over,
                   since, fwd_down,
                   lbutton>>

\* _sigint_handler (lines 851-857)
_sigint_handler ==
    /\ mpc = "pump"
    /\ ~quit_posted
    /\ stop_evt' = TRUE
    /\ quit_posted' = TRUE
    /\ emits' = <<>>
    /\ last' = "sigint"
    /\ hk' = NoCall
    /\ bare' = {}
    /\ UNCHANGED <<globals, hook_handle, mpc, wpc, locals, phys, held_over, since,
                   fwd_down, lbutton>>

\* message_pump (lines 600-607) returns on WM_QUIT; main sets the stop flag (line 882)
PumpQuits ==
    /\ mpc = "pump"
    /\ quit_posted
    /\ stop_evt' = TRUE
    /\ mpc' = "join"
    /\ emits' = <<>>
    /\ last' = "quit"
    /\ hk' = NoCall
    /\ bare' = {}
    /\ UNCHANGED <<globals, hook_handle, quit_posted, wpc, locals, phys, held_over,
                   since, fwd_down,
                   lbutton>>

\* worker.join(timeout=1.0) returns because the worker has finished (line 884)
JoinWorker ==
    /\ mpc = "join"
    /\ wpc = "done"
    /\ mpc' = "release_drag"
    /\ emits' = <<>>
    /\ last' = "join"
    /\ hk' = NoCall
    /\ bare' = {}
    /\ UNCHANGED <<globals, hook_handle, stop_evt, quit_posted, wpc, locals, phys,
                   held_over, since, fwd_down, lbutton>>

\* a join whose timeout leaves the finally block of main()
JoinTimeoutSkipsRelease ==
    /\ mpc = "join"
    /\ wpc # "done"
    /\ mpc' = "unhook"
    /\ emits' = <<>>
    /\ last' = "join_timeout"
    /\ hk' = NoCall
    /\ bare' = {}
    /\ UNCHANGED <<globals, hook_handle, stop_evt, quit_posted, wpc, locals, phys,
                   held_over, since, fwd_down, lbutton>>

\* worker.join(timeout=1.0) returns because the second has passed (line 884)
JoinTimesOut ==
    /\ mpc = "join"
    /\ wpc # "done"
    /\ mpc' = "release_drag"
    /\ emits' = <<>>
    /\ last' = "join_timeout"
    /\ hk' = NoCall
    /\ bare' = {}
    /\ UNCHANGED <<globals, hook_handle, stop_evt, quit_posted, wpc, locals, phys,
                   held_over, since, fwd_down, lbutton>>

\* lines 888-892
MainReleaseDrag ==
    /\ mpc = "release_drag"
    /\ emits' = IF dragging_active THEN send_left_up ELSE <<>>
    /\ lbutton' = LeftAfter(lbutton, emits')
    /\ mpc' = "release_shift"
    /\ last' = "main_release_drag"
    /\ hk' = NoCall
    /\ bare' = {"dragging_active"}
    /\ UNCHANGED <<globals, hook_handle, stop_evt, quit_posted, wpc, locals, phys,
                   held_over, since, fwd_down>>

\* line 894
MainReleaseShift ==
    /\ mpc = "release_shift"
    /\ emits' = _maybe_release_synth_shift
    /\ synth_shift_active' = IF emits' # <<>> THEN FALSE ELSE synth_shift_active
    /\ synth_shift_vk' = IF emits' # <<>> THEN None ELSE synth_shift_vk
    /\ mpc' = "unhook"
    /\ last' = "main_release_shift"
    /\ hk' = NoCall
    /\ bare' = ReleaseBare
    /\ UNCHANGED <<pressed_keys, active, dragging_active, hook_handle, stop_evt,
                   quit_posted, wpc, locals, phys, held_over, since, fwd_down, lbutton>>

\* uninstall_keyboard_hook (lines 583-597), then main returns and the daemon
\* worker dies with the process
UninstallHook ==
    /\ mpc = "unhook"
    /\ hook_handle' = FALSE
    /\ mpc' = "terminated"
    /\ emits' = <<>>
    /\ last' = "uninstall"
    /\ hk' = NoCall
    /\ bare' = {}
    /\ UNCHANGED <<globals, stop_evt, quit_posted, wpc, locals, phys, held_over, since,
                   fwd_down, lbutton>>

\* ------------------------------------------------------------ specifications
\* the module's state before main() is called
Start ==
    /\ pressed_keys = {}
    /\ active = TRUE
    /\ synth_shift_active = FALSE
    /\ synth_shift_vk = None
    /\ dragging_active = FALSE
    /\ hook_handle = FALSE
    /\ stop_evt = FALSE
    /\ quit_posted = FALSE
    /\ mpc = "install"
    /\ wpc = "idle"
    /\ snapshot = {}
    /\ STEP = STEP0
    /\ prev_shift = FALSE
    /\ prev_scroll_pressed_v = FALSE
    /\ prev_scroll_pressed_h = FALSE
    /\ next_scroll_time_v = 0
    /\ next_scroll_time_h = 0
    /\ prev_plus = FALSE
    /\ prev_minus = FALSE
    /\ prev_caps = FALSE
    /\ prev_f = FALSE
    /\ prev_backtick = FALSE
    /\ rel_vk = None
    /\ emits = <<>>
    /\ last = "start"
    /\ hk = NoCall
    /\ phys = {}
    /\ held_over = {}
    /\ lbutton = FALSE
    /\ since = NoScrollYet
    /\ fwd_down = {}
    /\ bare = {}

\* the state once main() pumps messages and the worker runs its loop, STEP
\* being one of `steps`
RunningWith(steps) ==
    /\ pressed_keys = {}
    /\ active = TRUE
    /\ synth_shift_active = FALSE
    /\ synth_shift_vk = None
    /\ dragging_active = FALSE
    /\ hook_handle = TRUE
    /\ stop_evt = FALSE
    /\ quit_posted = FALSE
    /\ mpc = "pump"
    /\ wpc = "loop"
    /\ snapshot = {}
    /\ STEP \in steps
    /\ prev_shift = FALSE
    /\ prev_scroll_pressed_v = FALSE
    /\ prev_scroll_pressed_h = FALSE
    /\ next_scroll_time_v = 0
    /\ next_scroll_time_h = 0
    /\ prev_plus = FALSE
    /\ prev_minus = FALSE
    /\ prev_caps = FALSE
    /\ prev_f = FALSE
    /\ prev_backtick = FALSE
    /\ rel_vk = None
    /\ emits = <<>>
    /\ last = "start"
    /\ hk = NoCall
    /\ phys = {}
    /\ held_over = {}
    /\ lbutton = FALSE
    /\ since = NoScrollYet
    /\ fwd_down = {}
    /\ bare = {}

Running == RunningWith({STEP0})

\* the user leaves STEP within MaxStepDelta of its initial value
SpeedCap(vk) ==
    /\ vk \in {VK_OEM_PLUS, VK_ADD} => STEP < STEP0 + MaxStepDelta
    /\ vk \in {VK_OEM_MINUS, VK_SUBTRACT} => STEP > STEP0 - MaxStepDelta

\* the keyboard reports at most MaxHeld keys down at a time
Rollover(vk) == Cardinality(phys \cup {vk}) <= MaxHeld

\* a key of `keys` goes down, repeats or goes up; injected: the event was
\* synthesized by SendInput and not typed; log: the call is recorded in hk
Keyboard(keys, log) ==
    \E vk \in keys, wParam \in {WM_KEYDOWN, WM_KEYUP}, injected \in BOOLEAN :
        /\ (~injected /\ IsKeyDown(wParam)) => (Rollover(vk) /\ SpeedCap(vk))
        /\ _low_level_keyboard_proc(0, wParam, vk, injected, FALSE, FALSE, log)
        /\ UNCHANGED fwd_down

\* --- Spec: the hook and the worker at work; the passthrough keys and one key
\* of each action they gate
Keys == { VK_LCONTROL, VK_LWIN, VK_W, VK_LSHIFT, VK_TAB, VK_F, VK_CAPITAL, VK_1, VK_3 }
KeyEvent == Keyboard(Keys, FALSE)
Next == KeyEvent \/ WorkerIteration
Spec == Running /\ [][Next]_vars

\* --- SpecEdge: the same with the toggle key and the edge-triggered actions
EdgeKeys == { VK_OEM_3, VK_LCONTROL, VK_LSHIFT, VK_CAPITAL, VK_F, VK_1,
              VK_OEM_PLUS, VK_OEM_MINUS }
EdgeKeyEvent == Keyboard(EdgeKeys, FALSE)
NextEdge == EdgeKeyEvent \/ WorkerIteration
SpecEdge == Running /\ [][NextEdge]_vars

\* --- SpecDrag: the same with the drag key, Shift, movement keys and Alt
DragKeys == { VK_TAB, VK_LSHIFT, VK_W, VK_D, VK_LEFT, VK_LMENU, VK_LCONTROL, VK_OEM_3 }
DragKeyEvent == Keyboard(DragKeys, FALSE)
NextDrag == DragKeyEvent \/ WorkerIteration
SpecDrag == Running /\ [][NextDrag]_vars

\* --- SpecHook: every argument the hook can be called with, each call logged
Modifiers == { VK_LCONTROL, VK_RCONTROL, VK_CONTROL, VK_LMENU, VK_RMENU, VK_MENU,
               VK_LSHIFT, VK_RSHIFT, VK_LWIN, VK_RWIN }
\* 88 is VK_X, a key the script does not know
HookKeys == { VK_OEM_3, VK_LCONTROL, VK_LMENU, VK_LSHIFT, VK_LWIN,
              VK_TAB, VK_W, VK_OEM_4, 88 }
\* the modifiers may all be down, with MaxHeld other keys
HookRollover(vk) == Cardinality((phys \cup {vk}) \ Modifiers) <= MaxHeld

\* the calls are at least one tick of the worker apart
HookCall ==
    \E nCode \in {0 - 1, 0}, vk \in HookKeys, injected \in BOOLEAN,
       wParam \in {WM_KEYDOWN, WM_KEYUP, WM_SYSKEYDOWN, WM_SYSKEYUP},
       printFails \in BOOLEAN, nextFails \in BOOLEAN :
        /\ last # "hook"
        /\ (nCode >= 0 /\ ~injected /\ IsKeyDown(wParam)) => HookRollover(vk)
        /\ _low_level_keyboard_proc(nCode, wParam, vk, injected, printFails, nextFails, TRUE)
        /\ UNCHANGED fwd_down

NextHook == HookCall \/ WorkerIteration
SpecHook == Running /\ [][NextHook]_vars

\* --- SpecLife: main() from its start to its return, the worker's iteration in
\* its two steps
LifeKeys == { VK_TAB, VK_W, VK_OEM_3 }
LifeKeyEvent == Keyboard(LifeKeys, TRUE)
NextLife ==
    \/ InstallHook \/ InstallFails \/ StartWorker
    \/ LifeKeyEvent
    \/ WorkerSnapshot \/ WorkerBody \/ WorkerStop \/ WorkerFinallyDrag \/ WorkerFinallyShift
    \/ _sigint_handler \/ PumpQuits \/ JoinWorker \/ JoinTimesOut
    \/ MainReleaseDrag \/ MainReleaseShift \/ UninstallHook
SpecLife == Start /\ [][NextLife]_vars

\* --- SpecLifeFair: the same under fair scheduling: main() and the worker both
\* get to take the step they are ready for, and the worker, which looks at the
\* stop flag every tick of 10 ms, is done before the join's second has passed
NextLifeFair ==
    \/ InstallHook \/ InstallFails \/ StartWorker
    \/ LifeKeyEvent
    \/ WorkerSnapshot \/ WorkerBody \/ WorkerStop \/ WorkerFinallyDrag \/ WorkerFinallyShift
    \/ _sigint_handler \/ PumpQuits \/ JoinWorker
    \/ MainReleaseDrag \/ MainReleaseShift \/ UninstallHook
SpecLifeFair ==
    /\ Start /\ [][NextLifeFair]_vars
    /\ WF_vars(PumpQuits) /\ WF_vars(JoinWorker)
    /\ WF_vars(MainReleaseDrag) /\ WF_vars(MainReleaseShift) /\ WF_vars(UninstallHook)
    /\ WF_vars(WorkerBody) /\ WF_vars(WorkerStop)
    /\ WF_vars(WorkerFinallyDrag) /\ WF_vars(WorkerFinallyShift)

\* --- SpecSynth: main() from its start to its return with the keys of the
\* Shift+Enter passthrough and of a drag, the worker's iteration in one step
SynthKeys == { VK_LSHIFT, VK_RSHIFT, VK_RETURN, VK_LCONTROL, VK_OEM_3, VK_TAB }
SynthKeyEvent == Keyboard(SynthKeys, FALSE)
NextSynth ==
    \/ InstallHook \/ InstallFails \/ StartWorker
    \/ SynthKeyEvent
    \/ WorkerIteration \/ WorkerStop \/ WorkerFinallyDrag \/ WorkerFinallyShift
    \/ _sigint_handler \/ PumpQuits \/ JoinWorker \/ JoinTimesOut
    \/ MainReleaseDrag \/ MainReleaseShift \/ UninstallHook
SpecSynth == Start /\ [][NextSynth]_vars

\* --- SpecRelease: the same with the worker's release of the synthetic Shift
\* taken step by step beside the hook and main()
ReleaseKeys == { VK_LSHIFT, VK_RETURN, VK_TAB }
ReleaseKeyEvent == Keyboard(ReleaseKeys, FALSE)
NextRelease ==
    \/ InstallHook \/ InstallFails \/ StartWorker
    \/ ReleaseKeyEvent
    \/ WorkerIteration \/ WorkerStop \/ WorkerFinallyDrag
    \/ ReleaseTest \/ ReleaseArg \/ ReleaseSend
    \/ _sigint_handler \/ PumpQuits \/ JoinWorker \/ JoinTimesOut
    \/ MainReleaseDrag \/ MainReleaseShift \/ UninstallHook
SpecRelease == Start /\ [][NextRelease]_vars

\* --- SpecPair: presses and their releases with what the hook decided for the
\* press remembered; a movement key, Tab, the toggle key and the modifiers
\* that change the decision
PairKeys == { VK_W, VK_TAB, VK_OEM_3, VK_LCONTROL, VK_LMENU }
PairKeyEvent ==
    \E vk \in PairKeys, wParam \in {WM_KEYDOWN, WM_KEYUP}, injected \in BOOLEAN :
        /\ (~injected /\ IsKeyDown(wParam)) => HookRollover(vk)
        /\ _low_level_keyboard_proc(0, wParam, vk, injected, FALSE, FALSE, TRUE)
        /\ fwd_down' = SeenDown(fwd_down, phys, wParam, vk, injected, hk'.ret)
NextPair == PairKeyEvent \/ WorkerIteration
SpecPair == Running /\ [][NextPair]_vars

\* --- SpecMove: the movement keys, two arrows and Shift at every speed the
\* user can have set; the key events are at least one tick apart
MoveKeys == { VK_W, VK_A, VK_S, VK_D, VK_LEFT, VK_UP, VK_LSHIFT }
\* one key more than MaxHeld may be down, for two opposing keys and a third
MoveKeyEvent ==
    \E vk \in MoveKeys, wParam \in {WM_KEYDOWN, WM_KEYUP}, injected \in BOOLEAN :
        /\ last # "hook"
        /\ (~injected /\ IsKeyDown(wParam)) => Cardinality(phys \cup {vk}) <= MaxHeld + 1
        /\ _low_level_keyboard_proc(0, wParam, vk, injected, FALSE, FALSE, FALSE)
        /\ UNCHANGED fwd_down
NextMove == MoveKeyEvent \/ WorkerIteration
SpecMove == RunningWith(MIN_STEP..MAX_STEP) /\ [][NextMove]_vars

\* --- SpecDisable: a drag and what disables it; Shift, Alt and Ctrl may all be
\* down together with MaxHeld other keys
DisableKeys == { VK_TAB, VK_W, VK_LEFT, VK_LSHIFT, VK_LMENU, VK_LCONTROL, VK_OEM_3 }
DisableKeyEvent ==
    \E vk \in DisableKeys, wParam \in {WM_KEYDOWN, WM_KEYUP}, injected \in BOOLEAN :
        /\ (~injected /\ IsKeyDown(wParam)) => HookRollover(vk)
        /\ _low_level_keyboard_proc(0, wParam, vk, injected, FALSE, FALSE, FALSE)
        /\ UNCHANGED fwd_down
NextDisable == DisableKeyEvent \/ WorkerIteration
SpecDisable == Running /\ [][NextDisable]_vars

\* --- SpecScroll: the scroll keys of both axes and Ctrl, with the time between
\* scrolls measured
ScrollKeys == { VK_1, VK_2, VK_3, VK_LCONTROL }
ScrollKeyEvent == Keyboard(ScrollKeys, FALSE)
NextScroll == ScrollKeyEvent \/ TimedIteration
SpecScroll == Running /\ [][NextScroll]_vars

\* --- SpecSpeed: the speed keys, the toggle key and Ctrl, from a STEP at, next
\* to and away from its bounds
SpeedKeys == { VK_OEM_PLUS, VK_OEM_MINUS, VK_SUBTRACT, VK_OEM_3, VK_LCONTROL }
SpeedKeyEvent ==
    \E vk \in SpeedKeys, wParam \in {WM_KEYDOWN, WM_KEYUP}, injected \in BOOLEAN :
        /\ (~injected /\ IsKeyDown(wParam)) => Rollover(vk)
        /\ _low_level_keyboard_proc(0, wParam, vk, injected, FALSE, FALSE, FALSE)
        /\ UNCHANGED fwd_down
NextSpeed == SpeedKeyEvent \/ WorkerIteration
SpecSpeed ==
    /\ RunningWith({MIN_STEP, MIN_STEP + 1, STEP0, MAX_STEP - 1, MAX_STEP})
    /\ [][NextSpeed]_vars

\* ------------------------------------------------------------ properties
\* the last step was a call of the hook with nCode >= 0, logged in hk
Called == hk.ret # "-" /\ hk.nCode >= 0
Forwarded == hk.ret \in {"CallNextHookEx", "0"}

\* C1: every non-injected transition of the toggle key with nCode >= 0 is
\* consumed (the hook returns 1), whatever active is and whichever of Ctrl,
\* Alt, Shift and Win are in the pressed-key set
C1_ToggleKeyConsumed ==
    (Called /\ ~hk.injected /\ hk.vk = VK_OEM_3) => hk.ret = "1"

\* the toggle key consumed while the script is off and Ctrl, Alt, Shift and
\* Win are all down
C1_Witness ==
    /\ Called /\ ~hk.injected /\ hk.vk = VK_OEM_3 /\ hk.ret = "1"
    /\ ~active
    /\ CtrlHeld(pressed_keys) /\ AltHeld(pressed_keys)
    /\ ShiftHeld(pressed_keys) /\ WinHeld(pressed_keys)

\* C9: a key other than the toggle key is consumed exactly when the event is
\* not injected, the key is a script key, the script is active, neither Ctrl
\* nor Win is down, and it is not Tab with Alt down; in every other case the
\* event is forwarded
C9_ConsumeDecision ==
    (Called /\ hk.vk # VK_OEM_3) =>
        /\ hk.ret = "1" <=>
              /\ ~hk.injected
              /\ hk.vk \in SCRIPT_KEYS
              /\ active
              /\ ~CtrlHeld(pressed_keys)
              /\ ~WinHeld(pressed_keys)
              /\ ~(hk.vk = VK_TAB /\ AltHeld(pressed_keys))
        /\ hk.ret # "1" => Forwarded

\* Tab forwarded because Alt is down, though the script is active and neither
\* Ctrl nor Win is down
C9_Witness ==
    /\ Called /\ ~hk.injected /\ hk.vk = VK_TAB
    /\ active /\ AltHeld(pressed_keys)
    /\ ~CtrlHeld(pressed_keys) /\ ~WinHeld(pressed_keys)
    /\ hk.ret = "CallNextHookEx"

\* C10: a fault inside the callback's try block never leaves the callback and
\* never consumes the event: the result is CallNextHookEx's, or 0 when that
\* call fails too
C10_FaultForwards ==
    /\ hk.ret \in {"-", "1", "0", "CallNextHookEx"}
    /\ hk.raised => Forwarded

\* a call in which the try block faults and CallNextHookEx fails as well
C10_Witness == hk.raised /\ hk.ret = "0"

\* C8: the pressed-key set is the set of keys whose latest non-injected
\* transition delivered to the hook was a press; injected events leave it as it
\* is, and no step other than the hook callback changes it
C8_PressedKeysTracked ==
    /\ [](pressed_keys = phys)
    /\ [][pressed_keys' # pressed_keys => (last' = "hook" /\ ~hk'.injected)]_vars

\* an injected event for Tab has just been handled while Tab is down on the
\* keyboard and W is not
C8_Witness ==
    /\ Called /\ hk.injected /\ hk.vk = VK_TAB
    /\ pressed_keys = {VK_TAB}

\* what the worker sends for a cursor move, a click, a scroll or a drag start
ActionTags ==
    { "MOVE", "LEFTDOWN", "RIGHTDOWN", "RIGHTUP", "MIDDLEDOWN", "MIDDLEUP",
      "WHEEL", "HWHEEL" }

\* C2: a tick whose snapshot holds a Ctrl key or a Windows key emits no cursor
\* move, no left, right or middle click, no vertical or horizontal scroll and
\* no drag button-down, whatever else is pressed and released meanwhile
C2_GateSilencesWorker ==
    (last = "tick" /\ (CtrlHeld(snapshot) \/ WinHeld(snapshot))) =>
        Tags(emits) \cap ActionTags = {}

\* a tick with the Windows key and W down in the active script emits nothing
C2_Witness ==
    /\ last = "tick" /\ active
    /\ snapshot = {VK_LWIN, VK_W}
    /\ emits = <<>>

\* C3: while a Ctrl key or a Windows key is held, the speed adjustment is not
\* performed: a tick whose snapshot holds one of them leaves STEP as it was
C3_SpeedFrozenUnderGate ==
    [][(last' = "tick" /\ (CtrlHeld(snapshot') \/ WinHeld(snapshot')))
          => STEP' = STEP]_vars

\* C5: a key held from an active tick through an off period does not fire its
\* action in the tick that turns the script on again: no click for Shift, no
\* right click for CapsLock, no middle click for F, no scroll for a scroll
\* key, no change of STEP for plus or minus
C5_NoRefireAcrossToggle ==
    [][(last' = "tick" /\ ~active /\ active') =>
          /\ (held_over \cap {VK_LSHIFT, VK_RSHIFT} # {}) => "LEFTDOWN" \notin Tags(emits')
          /\ VK_CAPITAL \in held_over => "RIGHTDOWN" \notin Tags(emits')
          /\ VK_F \in held_over => "MIDDLEDOWN" \notin Tags(emits')
          /\ (held_over \cap {VK_1, VK_2, VK_NUMPAD1, VK_NUMPAD2} # {})
                => "WHEEL" \notin Tags(emits')
          /\ (held_over \cap {VK_3, VK_4, VK_NUMPAD3, VK_NUMPAD4} # {})
                => "HWHEEL" \notin Tags(emits')
          /\ (held_over \cap {VK_OEM_PLUS, VK_ADD, VK_OEM_MINUS, VK_SUBTRACT} # {})
                => STEP' = STEP]_vars

\* C4: a shutdown during which a drag is active emits the compensating left
\* button-up before the process terminates, in every interleaving of the
\* worker's tick, the worker's finally block and main()'s shutdown block, the
\* join that times out included: the process never ends with the left
\* button-down of a drag outstanding
C4_DragReleasedAtExit == mpc = "terminated" => ~lbutton

\* a movement key or an arrow is among `keys`
MovementHeld(keys) ==
    keys \cap {VK_W, VK_A, VK_S, VK_D, VK_UP, VK_LEFT, VK_DOWN, VK_RIGHT} # {}
\* neither Ctrl nor Win is among `keys`
Ungated(keys) == ~CtrlHeld(keys) /\ ~WinHeld(keys)
\* the left clicks among the emissions `es`: a button-down with its button-up
Clicks(es) ==
    Cardinality({ i \in DOMAIN es : /\ i < Len(es)
                                    /\ es[i][1] = "LEFTDOWN"
                                    /\ es[i + 1][1] = "LEFTUP" })
\* this step is a tick of the active script, no Ctrl, Win or Alt in its snapshot
DragTick ==
    /\ last' = "tick" /\ active'
    /\ Ungated(snapshot') /\ ~AltHeld(snapshot')

\* C6: in the active script without Ctrl, Win or Alt, the tick that finds Tab
\* down with Shift or a movement key emits exactly one left button-down; every
\* later tick with Tab still down emits no button-down and no button-up and
\* the drag goes on, whether or not Shift or the movement key is still down;
\* the tick that finds Tab released emits exactly one button-up; so every
\* button-down of a drag is matched by one button-up
C6_OneDownOneUp ==
    /\ [](lbutton = dragging_active)
    /\ [][DragTick =>
            /\ (~dragging_active /\ VK_TAB \in snapshot'
                   /\ (ShiftHeld(snapshot') \/ MovementHeld(snapshot'))) =>
                  /\ Count(emits', "LEFTDOWN") = 1
                  /\ Count(emits', "LEFTUP") = 0
                  /\ dragging_active'
            /\ (dragging_active /\ VK_TAB \in snapshot') =>
                  /\ Count(emits', "LEFTDOWN") = 0
                  /\ Count(emits', "LEFTUP") = 0
                  /\ dragging_active'
            /\ (dragging_active /\ VK_TAB \notin snapshot') =>
                  /\ Count(emits', "LEFTDOWN") = 0
                  /\ Count(emits', "LEFTUP") = 1
                  /\ ~dragging_active']_vars

\* a tick in the middle of a drag: only Tab is down, nothing is emitted and the
\* button stays down
C6_Witness ==
    /\ last = "tick" /\ active
    /\ snapshot = {VK_TAB}
    /\ dragging_active /\ lbutton
    /\ emits = <<>>

\* C7: between two consecutive ticks of the active script without Ctrl or Win,
\* a rising edge of Shift with no movement key or arrow down, no drag starting
\* and no drag active emits exactly one left click; a tick that finds Shift
\* still down emits no click; and an edge with a movement key or arrow down
\* emits no click, so none is emitted later in that hold either
C7_ShiftClickOnEdge ==
    [][(/\ last' = "tick"
        /\ active /\ Ungated(snapshot)
        /\ active' /\ Ungated(snapshot')
        /\ ShiftHeld(snapshot')) =>
          /\ (~ShiftHeld(snapshot) /\ ~MovementHeld(snapshot')
                 /\ ~(VK_TAB \in snapshot' /\ ~AltHeld(snapshot'))
                 /\ ~dragging_active) => Clicks(emits') = 1
          /\ ShiftHeld(snapshot) => Clicks(emits') = 0
          /\ MovementHeld(snapshot') => Clicks(emits') = 0]_vars

\* the tick of a Shift press with nothing else down: one left click
C7_Witness ==
    /\ last = "tick" /\ active
    /\ snapshot = {VK_LSHIFT}
    /\ emits = send_left_click

SynthCleared == synth_shift_active /\ ~synth_shift_active'
\* this step is the hook handling the release of the key the synthetic Shift
\* stands for
ShadowedReleased ==
    /\ last' = "hook" /\ synth_shift_active
    /\ synth_shift_vk \in phys /\ synth_shift_vk \notin phys'

\* C12: a recorded synthetic Shift is cleared, with one synthetic Shift-up for
\* that key, by the release of the physical Shift key it stands for and by the
\* shutdown code of the worker or of main(), and by no other step: not by the
\* other Shift key, Enter, Ctrl or the toggle; no step that leaves it recorded
\* sends a Shift-up; none is recorded once main() has made its release
C12_SynthShiftRelease ==
    /\ [](mpc \in {"unhook", "terminated"} => ~synth_shift_active)
    /\ [][/\ SynthCleared =>
                /\ ShadowedReleased \/ last' \in {"finally", "main_release_shift"}
                /\ emits' = send_vk_up(synth_shift_vk)
                /\ synth_shift_vk' = None
          /\ ShadowedReleased => SynthCleared
          /\ (synth_shift_active /\ synth_shift_active') =>
                /\ "KEYUP" \notin Tags(emits')
                /\ synth_shift_vk' = synth_shift_vk]_vars

\* the hook has just sent the Shift-up for the released Left Shift while Enter
\* is still down
C12_Witness ==
    /\ last = "hook"
    /\ emits = send_vk_up(VK_LSHIFT)
    /\ ~synth_shift_active /\ synth_shift_vk = None
    /\ pressed_keys = {VK_RETURN}

Abs(n) == IF n < 0 THEN 0 - n ELSE n
\* round(s * 0.25): the integer nearest to s / 4, the even one of two equally near
NearestQuarter(s) ==
    CHOOSE m \in 0..s :
        \A k \in (0..s) \ {m} :
            \/ Abs(4 * m - s) < Abs(4 * k - s)
            \/ Abs(4 * m - s) = Abs(4 * k - s) /\ m % 2 = 0
\* exactly one movement key or arrow is among `keys`
SingleMovement(keys) ==
    Cardinality(keys \cap {VK_W, VK_A, VK_S, VK_D, VK_UP, VK_LEFT, VK_DOWN, VK_RIGHT}) = 1
\* this step is a tick of the active script, no Ctrl or Win in its snapshot,
\* with a single movement key down
SingleMoveTick ==
    /\ last' = "tick" /\ active'
    /\ Ungated(snapshot') /\ SingleMovement(snapshot')
\* the emissions `es` are one cursor move that asks for `n` pixels along one axis
OneMoveOf(es, n) ==
    /\ Count(es, "MOVE") = 1
    /\ \A i \in DOMAIN es :
          es[i][1] = "MOVE" => Abs(es[i][4]) + Abs(es[i][5]) = n

\* C13 as stated: every tick with a single movement key down emits exactly one
\* cursor move, of STEP pixels without Shift and of round(STEP * 0.25) pixels
\* with Shift
C13_MoveMagnitude ==
    [][SingleMoveTick =>
          OneMoveOf(emits', IF ShiftHeld(snapshot') THEN NearestQuarter(STEP')
                            ELSE STEP')]_vars

\* C13 amended: every tick with a single movement key down emits exactly one
\* cursor move, of STEP pixels without Shift and of max(1, round(STEP * 0.25))
\* pixels with Shift, so that N such ticks emit N moves at every STEP in [1,50]
C13_MoveMagnitudeFloored ==
    [][SingleMoveTick =>
          OneMoveOf(emits', IF ShiftHeld(snapshot')
                            THEN (IF NearestQuarter(STEP') < 1 THEN 1
                                  ELSE NearestQuarter(STEP'))
                            ELSE STEP')]_vars

\* a tick with Left Shift and the Left arrow down at STEP 2: one move of one
\* pixel where round(2 * 0.25) is 0
C13_Witness ==
    /\ last = "tick" /\ active /\ STEP = 2
    /\ snapshot = {VK_LSHIFT, VK_LEFT}
    /\ Count(emits, "MOVE") = 1
    /\ \E i \in DOMAIN emits : emits[i][1] = "MOVE" /\ emits[i][4] = 0 - 1

\* C14: the target of every cursor move lies in the virtual-desktop rectangle
\* [left, left + width - 1] x [top, top + height - 1], wherever the cursor
\* was, whatever STEP is and whichever movement keys are down
C14_TargetInsideDesktop ==
    \A i \in DOMAIN emits :
        emits[i][1] = "MOVE" =>
            /\ left <= emits[i][2] /\ emits[i][2] <= left + width - 1
            /\ top <= emits[i][3] /\ emits[i][3] <= top + height - 1

\* a cursor in the top left corner asked to go 50 pixels further left stays
\* in the corner
C14_Witness ==
    /\ last = "tick" /\ STEP = MAX_STEP
    /\ snapshot = {VK_A}
    /\ emits = <<(<<"MOVE", left, top, 0 - MAX_STEP, 0>>)>>

\* a key or arrow for each direction is among `keys`
GoesLeft(keys) == VK_A \in keys \/ VK_LEFT \in keys
GoesRight(keys) == VK_D \in keys \/ VK_RIGHT \in keys
GoesUp(keys) == VK_W \in keys \/ VK_UP \in keys
GoesDown(keys) == VK_S \in keys \/ VK_DOWN \in keys

\* C15: in a tick of the active script, left and right held together (keys or
\* arrows) give every cursor move a horizontal displacement of zero, up and
\* down held together a vertical displacement of zero, and when each axis has
\* both of its directions or none the tick emits no cursor move
C15_OpposingKeysCancel ==
    [][(last' = "tick" /\ active') =>
          /\ (GoesLeft(snapshot') /\ GoesRight(snapshot')) =>
                \A i \in DOMAIN emits' : emits'[i][1] = "MOVE" => emits'[i][4] = 0
          /\ (GoesUp(snapshot') /\ GoesDown(snapshot')) =>
                \A i \in DOMAIN emits' : emits'[i][1] = "MOVE" => emits'[i][5] = 0
          /\ ((GoesLeft(snapshot') <=> GoesRight(snapshot'))
                 /\ (GoesUp(snapshot') <=> GoesDown(snapshot'))) =>
                Count(emits', "MOVE") = 0]_vars

\* the Left arrow, D and W down: one move straight up
C15_Witness ==
    /\ last = "tick" /\ active
    /\ snapshot = {VK_LEFT, VK_D, VK_W}
    /\ Count(emits, "MOVE") = 1
    /\ \E i \in DOMAIN emits :
          emits[i][1] = "MOVE" /\ emits[i][4] = 0 /\ emits[i][5] = 0 - STEP

\* a key event or a right-button event
IsKeyOrRight(e) == e[1] \in {"KEYDOWN", "KEYUP", "RIGHTDOWN", "RIGHTUP"}
\* CapsLock down, up, down, up, then the right button down, up
CapsSequence ==
    << <<"KEYDOWN", VK_CAPITAL, 0, 0, 0>>, <<"KEYUP", VK_CAPITAL, 0, 0, 0>>,
       <<"KEYDOWN", VK_CAPITAL, 0, 0, 0>>, <<"KEYUP", VK_CAPITAL, 0, 0, 0>>,
       <<"RIGHTDOWN", 0, 0, 0, 0>>, <<"RIGHTUP", 0, 0, 0, 0>> >>

\* C16: between two consecutive ticks of the active script without Ctrl or
\* Win, CapsLock absent from the first snapshot and present in the second
\* makes the worker send CapsLock down, up, down, up, right button down, up,
\* in that order and nothing else of the kind; CapsLock present in both, or
\* absent from the second, sends none of them, whatever injected CapsLock
\* events the hook has seen in between
C16_CapsDoubleToggleThenRightClick ==
    [][(/\ last' = "tick"
        /\ active /\ Ungated(snapshot)
        /\ active' /\ Ungated(snapshot')) =>
          SelectSeq(emits', IsKeyOrRight) =
              IF VK_CAPITAL \in snapshot' /\ VK_CAPITAL \notin snapshot
              THEN CapsSequence ELSE <<>>]_vars

\* the tick of a CapsLock press with nothing else down
C16_Witness ==
    /\ last = "tick" /\ active
    /\ snapshot = {VK_CAPITAL}
    /\ emits = CapsSequence

\* the volume-set calls among the emissions `es`
VolumeCalls(es) == SelectSeq(es, LAMBDA e : e[1] = "VOLUME")

\* C17: a physical press of '[' makes exactly one call of the volume service,
\* with 24 percent, and none is made for as long as the key stays down,
\* whatever key-down repeats the hook is given meanwhile; the worker's ticks
\* make none; the event is forwarded
C17_VolumeOncePerPress ==
    [][/\ (last' = "hook" /\ VK_OEM_4 \notin phys /\ VK_OEM_4 \in phys') =>
             /\ VolumeCalls(emits') = <<(<<"VOLUME", 24, 0, 0, 0>>)>>
             /\ hk'.ret \in {"CallNextHookEx", "0"}
       /\ (VK_OEM_4 \in phys /\ VK_OEM_4 \in phys') => VolumeCalls(emits') = <<>>
       /\ last' = "tick" => VolumeCalls(emits') = <<>>]_vars

\* left button-downs less left button-ups outstanding just before the i-th of
\* the emissions `es`, `held` telling whether one was outstanding before them
Outstanding(es, i, held) ==
    (IF held THEN 1 ELSE 0)
        + Cardinality({ j \in 1..(i - 1) : es[j][1] = "LEFTDOWN" })
        - Cardinality({ j \in 1..(i - 1) : es[j][1] = "LEFTUP" })

DisabledTick ==
    /\ last' = "tick"
    /\ \/ CtrlHeld(snapshot') \/ WinHeld(snapshot') \/ AltHeld(snapshot')
       \/ ~active'

\* C19 as stated: a tick whose snapshot has Ctrl, Win or Alt, or in which the
\* script is off, the tick that turns it off included, ends with
\* dragging_active false; if the flag was true at its start, exactly one left
\* button-up is emitted in the tick; and no drag is started in it: every left
\* button-down it emits is that of a click
C19_DragReleasedWhenDisabled ==
    [][DisabledTick =>
          /\ ~dragging_active'
          /\ dragging_active => Count(emits', "LEFTUP") = 1
          /\ Count(emits', "LEFTDOWN") = Clicks(emits')]_vars

\* C19 amended: such a tick ends with dragging_active false; if the flag was
\* true at its start, the tick's first emission is a left button-up and it is
\* the only one that is not the button-up of a click; if the flag was false,
\* every button-up is that of a click; no drag is started; and a click is
\* emitted in such a tick only when it is an Alt tick of the active script
\* without Ctrl and Win
C19_DragReleasedOnceWhenDisabled ==
    [][DisabledTick =>
          /\ ~dragging_active'
          /\ Count(emits', "LEFTUP") =
                (IF dragging_active THEN 1 ELSE 0) + Clicks(emits')
          /\ dragging_active => emits'[1][1] = "LEFTUP"
          /\ Count(emits', "LEFTDOWN") = Clicks(emits')
          /\ Clicks(emits') <= 1
          /\ (CtrlHeld(snapshot') \/ WinHeld(snapshot') \/ ~active') =>
                Clicks(emits') = 0]_vars

\* an Alt tick of the active script that released a drag and then clicked for a
\* new Shift press: two button-ups in one tick
C19_Witness ==
    /\ last = "tick" /\ active
    /\ AltHeld(snapshot)
    /\ Clicks(emits) = 1
    /\ Count(emits, "LEFTUP") = 2
    /\ ~lbutton

\* C20: a key that has been down without a break since the last tick in which
\* the script acted on it does not fire its action again, whatever was pressed
\* and released meanwhile, Ctrl and the toggle key included: no left click
\* for Shift, no right click for CapsLock, no middle click for F, no toggle
\* for backtick, no speed-up for plus and no slow-down for minus
C20_NoRefireWhileHeld ==
    [][last' = "tick" =>
          /\ (held_over \cap {VK_LSHIFT, VK_RSHIFT} # {}) => Clicks(emits') = 0
          /\ VK_CAPITAL \in held_over => Count(emits', "RIGHTDOWN") = 0
          /\ VK_F \in held_over => Count(emits', "MIDDLEDOWN") = 0
          /\ VK_OEM_3 \in held_over => active' = active
          /\ (held_over \cap {VK_OEM_PLUS, VK_ADD} # {}) => STEP' <= STEP
          /\ (held_over \cap {VK_OEM_MINUS, VK_SUBTRACT} # {}) => STEP' >= STEP]_vars

\* the ticks between the last scroll of the present hold on an axis, `before`
\* on the ghost clock, and the clock reading `e` ticks later
Gap(before, e) == IF before + e < SCROLL_INTERVAL THEN before + e ELSE SCROLL_INTERVAL

\* C21: in the active script without Ctrl or Win, the first tick that finds a
\* scroll key of an axis down emits one scroll of that axis; a scroll is
\* emitted on an axis only when SCROLL_INTERVAL has passed since the last one
\* of the same hold, whatever else was pressed and released meanwhile, each
\* axis by itself; a tick never emits two scrolls of one axis; and a tick that
\* finds both keys of the vertical pair down emits no vertical scroll
C21_ScrollRateLimited ==
    [][last' = "tick" =>
          /\ (/\ active /\ active' /\ Ungated(snapshot')
              /\ snapshot \cap VerticalKeys = {}
              /\ snapshot' \cap VerticalKeys \in {{VK_1}, {VK_2}}) =>
                 Count(emits', "WHEEL") = 1
          /\ Count(emits', "WHEEL") > 0 => Gap(since.v, since'.e) = SCROLL_INTERVAL
          /\ Count(emits', "HWHEEL") > 0 => Gap(since.h, since'.e) = SCROLL_INTERVAL
          /\ Count(emits', "WHEEL") <= 1 /\ Count(emits', "HWHEEL") <= 1
          /\ {VK_1, VK_2} \subseteq snapshot' => Count(emits', "WHEEL") = 0]_vars

\* C22: a tick starts a drag, emitting the one left button-down that is not
\* part of a click and setting dragging_active, exactly when it ends with the
\* script active, finds no Ctrl and no Win, finds Tab down with Shift, a
\* movement key or an arrow, finds no Alt, and no drag is active; a drag goes
\* on, with no left button event, through every tick that finds Tab down and
\* no Alt, Ctrl or Win with the script active, whatever else is down; and the
\* tick that finds Tab released or Alt down ends it with one button-up
C22_DragLifecycle ==
    [][last' = "tick" =>
          LET tab == VK_TAB \in snapshot'
              alt == snapshot' \cap {VK_LMENU, VK_RMENU, VK_MENU} # {}
              on == active' /\ Ungated(snapshot')
              starts == /\ on /\ tab /\ ~alt /\ ~dragging_active
                        /\ (ShiftHeld(snapshot') \/ MovementHeld(snapshot'))
          IN  /\ (~dragging_active /\ dragging_active') <=> starts
              /\ Count(emits', "LEFTDOWN") - Clicks(emits') = (IF starts THEN 1 ELSE 0)
              /\ (dragging_active /\ on /\ tab /\ ~alt) =>
                    /\ dragging_active'
                    /\ Count(emits', "LEFTDOWN") + Count(emits', "LEFTUP") = 0
              /\ (dragging_active /\ (~tab \/ alt)) =>
                    /\ ~dragging_active'
                    /\ Count(emits', "LEFTUP") - Clicks(emits') = 1]_vars

\* a drag started by Tab with the left arrow
C22_Witness ==
    /\ last = "tick" /\ active
    /\ snapshot = {VK_TAB, VK_LEFT}
    /\ dragging_active
    /\ Count(emits, "LEFTDOWN") = 1

\* a plus key, a minus key is among `keys`
PlusHeld(keys) == keys \cap {VK_OEM_PLUS, VK_ADD} # {}
MinusHeld(keys) == keys \cap {VK_OEM_MINUS, VK_SUBTRACT} # {}

\* C23: STEP is always an integer from 1 to 50; a tick that ends with the
\* script active raises it by one, but not above 50, if it finds a plus key
\* down that the tick before did not, and then lowers it by one, but not
\* below 1, if it finds a minus key down that the tick before did not, so
\* that both edges together leave it as it was unless it was 50; no other
\* step changes it, and no tick that ends with the script off
C23_StepBoundedAndEdgeDriven ==
    /\ [](STEP \in 1..50)
    /\ [][LET acts == last' = "tick" /\ active'
              up == acts /\ PlusHeld(snapshot') /\ ~PlusHeld(snapshot)
              down == acts /\ MinusHeld(snapshot') /\ ~MinusHeld(snapshot)
              raised == IF up /\ STEP < 50 THEN STEP + 1 ELSE STEP
          IN  /\ STEP' = IF down /\ raised > 1 THEN raised - 1 ELSE raised
              /\ STEP' - STEP \in {0 - 1, 0, 1}]_vars

\* a tick of the active script with plus down and STEP at its upper bound
C23_Witness ==
    /\ last = "tick" /\ active
    /\ snapshot = {VK_OEM_PLUS}
    /\ STEP = MAX_STEP

\* C24: no step of the hook callback, of the worker or of the shutdown code
\* reads or writes pressed_keys, active, dragging_active, synth_shift_active or
\* synth_shift_vk without holding pressed_lock
C24_SharedDataUnderLock == bare = {}

\* C25: once the interrupt handler has set the stop flag and posted the quit
\* message, the worker reaches the end of its finally block, main() returns
\* and the hook is unregistered; after the flag is set the worker finishes at
\* most the iteration it had begun and starts no other; and a failed
\* registration ends the program with no worker started and no hook
\* registered, no step following it
C25_CooperativeShutdown ==
    /\ (stop_evt /\ quit_posted) ~> (wpc = "done" /\ mpc = "terminated" /\ ~hook_handle)
    /\ [][(stop_evt /\ last' \in {"snapshot", "tick"}) => (wpc = "body" /\ wpc' = "loop")]_vars
    /\ [](last = "install_failed" => (wpc = "idle" /\ ~hook_handle /\ mpc = "terminated"))
    /\ [][last # "install_failed"]_vars

\* the program has ended after an interrupt, the worker's finally block done
C25_Witness ==
    /\ stop_evt /\ quit_posted
    /\ wpc = "done" /\ mpc = "terminated"
    /\ ~hook_handle

\* the synthetic Shift-downs less the synthetic Shift-ups among the emissions `es`
ShiftBalance(es) ==
    Cardinality({ i \in DOMAIN es : es[i][1] = "KEYDOWN" /\ es[i][2] \in {VK_LSHIFT, VK_RSHIFT} })
        - Cardinality({ i \in DOMAIN es : es[i][1] = "KEYUP" /\ es[i][2] \in {VK_LSHIFT, VK_RSHIFT} })

\* C26: whenever a synthetic Shift is recorded, synth_shift_vk is Left Shift or
\* Right Shift and that key is in pressed_keys; none is recorded at the start,
\* and every step, those of the worker's finally block and of main()'s
\* shutdown block included, changes the synthetic Shift-downs emitted less the
\* synthetic Shift-ups emitted by exactly the change of synth_shift_active and
\* emits at most one of them, so that one synthetic Shift is outstanding when
\* the flag is set, none when it is not, and no Shift-down gets two Shift-ups
C26_SynthShiftBalanced ==
    /\ [](synth_shift_active =>
             (synth_shift_vk \in {VK_LSHIFT, VK_RSHIFT} /\ synth_shift_vk \in pressed_keys))
    /\ (last = "start" => ~synth_shift_active)
    /\ [][/\ ShiftBalance(emits') =
                (IF synth_shift_active' THEN 1 ELSE 0) - (IF synth_shift_active THEN 1 ELSE 0)
          /\ Cardinality({ i \in DOMAIN emits' :
                             /\ emits'[i][1] \in {"KEYDOWN", "KEYUP"}
                             /\ emits'[i][2] \in {VK_LSHIFT, VK_RSHIFT} }) <= 1]_vars

\* C27: the hook consumes the release of a script key exactly when it consumed
\* the press of that hold, and forwards it exactly when it forwarded the
\* press, whatever was pressed or released and however the active flag
\* changed in between
C27_ReleaseDecidedAsPress ==
    [][(/\ last' = "hook" /\ ~hk'.injected
        /\ hk'.vk \in SCRIPT_KEYS
        /\ hk'.vk \in phys /\ hk'.vk \notin phys') =>
          (hk'.ret = "1" <=> hk'.vk \notin fwd_down)]_vars

\* C28: a tick in which the worker moves the cursor, clicks or starts a drag
\* acts on no key whose press was forwarded to the application: no movement
\* key behind a move and no Tab behind a drag start is a key that is down with
\* its press forwarded
C28_ActedKeysWereConsumed ==
    [][last' = "tick" =>
          /\ Count(emits', "MOVE") > 0 =>
                snapshot' \cap {VK_W, VK_A, VK_S, VK_D, VK_UP, VK_LEFT, VK_DOWN, VK_RIGHT}
                    \cap fwd_down = {}
          /\ (~dragging_active /\ dragging_active') => VK_TAB \notin fwd_down]_vars

====
